---- MODULE Spec2Model ----
(***************************************************************************)
(* A model of the bot-website-api gateway (src/main.py, src/auth.py):      *)
(* the payload filter, the token authority, the authorization gate, the    *)
(* route handlers and the upstream forwarder.                              *)
(*                                                                         *)
(* Python dicts are functions from a finite set of string keys to string   *)
(* values; the empty dict is the function with the empty domain.  Time is  *)
(* counted in ticks, TicksPerSecond ticks to a second, so that the         *)
(* fractional part of time.time() exists in the model.                     *)
(***************************************************************************)
EXTENDS Integers, Sequences, FiniteSets, TLC

VARIABLES
    strategy,    \* which branch of the try/except ImportError defined the token functions
    now,         \* the value time.time() returns, in ticks
    tok,         \* token authority: the token string under test
    vres,        \* token authority: the outcome of the last verify / get_current_user
    fP,          \* payload filter: the input mapping
    fA,          \* payload filter: the allow-list
    fOut,        \* payload filter: outputs of the first and second application
    API_KEY,     \* auth.py: the configured service key
    keyReq,      \* auth.py: the request under the API-key policy
    keyRes,      \* auth.py: the outcome of the API-key check
    warnings,    \* auth.py: number of development-mode warnings printed
    req,         \* gateway: the request being handled
    sent,        \* gateway: requests sent to the upstream database for it
    discordCalls,\* gateway: requests sent to the identity provider for it
    newest       \* upstream: who created the newest row of the request's table

vars == <<strategy, now, tok, vres, fP, fA, fOut, API_KEY, keyReq, keyRes,
          warnings, req, sent, discordCalls, newest>>

tokenVars   == <<tok, vres>>
filterVars  == <<fP, fA, fOut>>
keyVars     == <<API_KEY, keyReq, keyRes, warnings>>
gatewayVars == <<req, sent, discordCalls, newest>>

-----------------------------------------------------------------------------
(* Bounds of the model *)

\* ticks to a second: the resolution of the fractional part of time.time()
TicksPerSecond == 2
\* tokens are issued during the first MaxIssueTick ticks of the clock
MaxIssueTick == 3
\* the clock runs until MaxExtraSeconds seconds after the one-hour lifetime
MaxExtraSeconds == 2
\* the largest number of keys of a request body
MaxPayloadKeys == 3
\* the largest number of sections the upstream returns to a hierarchy read
MaxSections == 1
\* the largest number of development-mode warnings counted
MaxWarnings == 3

-----------------------------------------------------------------------------
(* Python values *)

EmptyDict == [k \in {} |-> ""]

\* every dict with keys among keys (at most n of them) and values among vals
Dicts(keys, vals, n) ==
    UNION {[d -> vals] : d \in {s \in SUBSET keys : Cardinality(s) <= n}}

\* Python truthiness of a string value
Truthy(v) == v # ""

-----------------------------------------------------------------------------
(* 4.3 Payload filter: src/main.py _filter_payload *)

\* a filter that forgets the allow-list
filter_keeps_all(data, allowed_keys) == data

\* a filter that keeps the right keys and loses their values
filter_blanks_values(data, allowed_keys) ==
    [k \in {k \in DOMAIN data : k \in allowed_keys} |-> ""]

_filter_payload(data, allowed_keys) ==
    [k \in {k \in DOMAIN data : k \in allowed_keys} |-> data[k]]

HR_COLUMNS == {"user_id", "username", "tryouts", "events", "phases", "courses",
               "inspections", "joint_events", "division", "rank"}

LR_COLUMNS == {"user_id", "username", "activity", "time_guarded",
               "events_attended", "division", "rank"}

USER_COLUMNS == {"user_id", "username", "xp"}

HIERARCHY_SECTION_COLUMNS == {"section_title", "section_type", "accent_color",
                              "display_order", "is_active"}

HIERARCHY_ENTRY_COLUMNS == {"section_id", "rank", "username", "army_rank",
                            "roblox_id", "requirements", "display_order"}

HIERARCHY_HEADER_COLUMNS == {"section_id", "header_text", "display_order"}

\* inputs of the filter taken on its own
FilterKeys == {"user_id", "username", "xp", "evil_field"}
FilterVals == {"", "42", "alice"}
NotRun == [ran |-> FALSE, out |-> EmptyDict]

FilterIdle ==
    /\ fP = EmptyDict
    /\ fA = {}
    /\ fOut = <<NotRun, NotRun>>

FilterInit ==
    /\ fP \in Dicts(FilterKeys, FilterVals, MaxPayloadKeys)
    /\ fA \in SUBSET FilterKeys
    /\ fOut = <<NotRun, NotRun>>

\* filter(P, A)
FilterOnce ==
    /\ ~fOut[1].ran
    /\ fOut' = <<[ran |-> TRUE, out |-> _filter_payload(fP, fA)], NotRun>>
    /\ UNCHANGED <<fP, fA, strategy, now, tok, vres, API_KEY, keyReq, keyRes, warnings,
                   req, sent, discordCalls, newest>>

\* filter(filter(P, A), A)
FilterTwice ==
    /\ fOut[1].ran /\ ~fOut[2].ran
    /\ fOut' = <<fOut[1], [ran |-> TRUE, out |-> _filter_payload(fOut[1].out, fA)]>>
    /\ UNCHANGED <<fP, fA, strategy, now, tok, vres, API_KEY, keyReq, keyRes, warnings,
                   req, sent, discordCalls, newest>>

-----------------------------------------------------------------------------
(* 4.1 Token authority: src/main.py create_jwt_token / verify_jwt_token     *)
(*                                                                         *)
(* A token string is described by what each decoding stage makes of it:    *)
(*   fmt   "jws" (a compact JWS), "b64" (base64 of UTF-8 text), "garbage"  *)
(*   key   the HMAC key a JWS is signed with ("" when there is none)       *)
(*   body  the JSON text inside: json is "object", "array", "scalar" or    *)
(*         "invalid"; an object carries the claims, each claim present     *)
(*         with a value or absent.                                         *)
(* A numeric claim is [t |-> "num", v |-> ticks]; other JSON values of a   *)
(* claim are "str" (a non-numeric string) and "null".                      *)
(***************************************************************************)

SECRET_KEY == "your-secret-key-change-in-production"
ADMIN_DISCORD_ID == "353167234698444802"
MEMBER_DISCORD_ID == "1001"

\* the lifetime of a token in seconds: time.time() + 3600
TTL == 3600

Seconds(s) == s * TicksPerSecond

\* Python int(x) of a non-negative float, in ticks
IntPart(x) == (x \div TicksPerSecond) * TicksPerSecond

Absent == [t |-> "absent", v |-> 0]
Num(x) == [t |-> "num", v |-> x]
Str    == [t |-> "str", v |-> 0]
Null   == [t |-> "null", v |-> 0]

NoBody == [json |-> "invalid", discord_id |-> "", username |-> "",
           exp |-> Absent, iat |-> Absent]
Object(discord_id, username, exp, iat) ==
    [json |-> "object", discord_id |-> discord_id, username |-> username,
     exp |-> exp, iat |-> iat]
\* "" as a claim value stands for a key the object does not have
EmptyObject == Object("", "", Absent, Absent)

Identities == {[discord_id |-> d, username |-> u] :
                  d \in {ADMIN_DISCORD_ID, MEMBER_DISCORD_ID}, u \in {"alice"}}

\* PyJWT strategy, lines 152-159; t_exp and t_iat are the two reads of time.time()
create_jwt_token_pyjwt(user_data, t_exp, t_iat) ==
    [fmt |-> "jws", key |-> SECRET_KEY,
     body |-> Object(user_data.discord_id, user_data.username,
                     Num(t_exp + Seconds(TTL)), Num(t_iat))]

\* fallback strategy, lines 176-184
create_jwt_token_fallback(user_data, t_exp, t_iat) ==
    [fmt |-> "b64", key |-> "",
     body |-> Object(user_data.discord_id, user_data.username,
                     Num(t_exp + Seconds(TTL)), Num(t_iat))]

create_jwt_token(user_data, t_exp, t_iat) ==
    IF strategy = "pyjwt" THEN create_jwt_token_pyjwt(user_data, t_exp, t_iat)
    ELSE create_jwt_token_fallback(user_data, t_exp, t_iat)

Raised == [outcome |-> "raised", payload |-> NoBody]
None == [outcome |-> "None", payload |-> NoBody]
Payload(b) == [outcome |-> "payload", payload |-> b]

\* jwt.decode(token, SECRET_KEY, algorithms=["HS256"]) of PyJWT 2.x: the exp and
\* iat claims are coerced with int(); a token has expired when int(exp) <= now,
\* and is immature when int(iat) > now.  (PyJWT before 2.6 compares whole
\* seconds with int(exp) < int(now); both differ from exp > now when exp has a
\* fractional part.)
jwt_decode(token, t) ==
    IF token.fmt # "jws" THEN Raised                         \* DecodeError
    ELSE IF token.key # SECRET_KEY THEN Raised               \* InvalidSignatureError
    ELSE IF token.body.json # "object" THEN Raised           \* DecodeError
    ELSE IF token.body.exp.t \in {"str", "null"} THEN Raised \* int() fails
    ELSE IF token.body.exp.t = "num" /\ IntPart(token.body.exp.v) <= t
         THEN Raised                                         \* ExpiredSignatureError
    ELSE IF token.body.iat.t \in {"str", "null"} THEN Raised
    ELSE IF token.body.iat.t = "num" /\ IntPart(token.body.iat.v) > t
         THEN Raised                                         \* ImmatureSignatureError
    ELSE Payload(token.body)

\* the body of the fallback verify inside its try, lines 189-192
fallback_decode(token, t) ==
    IF token.fmt # "b64" THEN Raised                         \* b64decode / decode
    ELSE IF token.body.json = "invalid" THEN Raised          \* json.loads
    ELSE IF token.body.json # "object" THEN Raised           \* payload.get: AttributeError
    ELSE IF token.body.exp.t \in {"str", "null"} THEN Raised \* > : TypeError
    ELSE IF (IF token.body.exp.t = "num" THEN token.body.exp.v ELSE 0) > t
         THEN Payload(token.body)
    ELSE None

\* a verify whose try has no except clause
verify_lets_raise(token, t) ==
    IF strategy = "pyjwt" THEN jwt_decode(token, t) ELSE fallback_decode(token, t)

\* PyJWT strategy, lines 161-167: try: return jwt.decode(...) except: return None
verify_jwt_token_pyjwt(token, t) ==
    IF jwt_decode(token, t).outcome = "raised" THEN None ELSE jwt_decode(token, t)

\* fallback strategy, lines 186-195: try: ... except: pass; return None
verify_jwt_token_fallback(token, t) ==
    IF fallback_decode(token, t).outcome = "raised" THEN None
    ELSE fallback_decode(token, t)

verify_jwt_token(token, t) ==
    IF strategy = "pyjwt" THEN verify_jwt_token_pyjwt(token, t)
    ELSE verify_jwt_token_fallback(token, t)

\* Python: not user (None, or a dict with no key)
Falsy(user) == user.outcome = "None" \/ user.payload = EmptyObject

\* lines 197-203; the result is the user or the HTTP status raised
get_current_user(token, t) ==
    IF verify_jwt_token(token, t).outcome = "raised"
    THEN [status |-> 500, user |-> Raised]    \* an exception escaping the dependency
    ELSE IF Falsy(verify_jwt_token(token, t))
    THEN [status |-> 401, user |-> None]
    ELSE [status |-> 200, user |-> verify_jwt_token(token, t)]

-----------------------------------------------------------------------------
(* The token authority on its own: a token is issued or presented, the     *)
(* clock advances, the token is verified.                                  *)

NoIdentity == [discord_id |-> "", username |-> ""]
NoToken == [fmt |-> "none", key |-> "", body |-> NoBody]
NotVerified == [called |-> FALSE, at |-> 0, status |-> 0, user |-> None]

TokenIdle ==
    /\ tok = [s |-> NoToken, origin |-> "none", identity |-> NoIdentity]
    /\ vres = NotVerified

\* the last clock value of the model
Horizon == Seconds(TTL + MaxExtraSeconds)

\* JSON texts a client can put inside a token it builds itself, at time t
ForeignBodies(t) ==
    {[NoBody EXCEPT !.json = j] : j \in {"invalid", "array", "scalar"}}
    \cup {Object(d, IF d = "" THEN "" ELSE "mallory", e, i) :
            d \in {"", ADMIN_DISCORD_ID, MEMBER_DISCORD_ID},
            e \in {Absent, Str, Null, Num(t), Num(t + 1), Num(t + Seconds(TTL))},
            i \in {Absent, Num(t)}}

\* strings a client can present that no create_jwt_token call returned
ForeignTokens(t) ==
    {[fmt |-> "jws", key |-> k, body |-> b] :
        k \in {SECRET_KEY, "forged"}, b \in ForeignBodies(t)}
    \cup {[fmt |-> "b64", key |-> "", body |-> b] : b \in ForeignBodies(t)}
    \cup {[fmt |-> "garbage", key |-> "", body |-> NoBody]}

\* issue(I): discord_callback calls create_jwt_token, which reads the clock twice
Issue ==
    /\ tok.origin = "none"
    /\ now <= MaxIssueTick
    /\ \E I \in Identities, d \in {0, 1} :
         /\ tok' = [s |-> create_jwt_token(I, now, now + d),
                    origin |-> "issued", identity |-> I]
         /\ now' = now + d
    /\ UNCHANGED <<strategy, vres, filterVars, keyVars, gatewayVars>>

\* a client presents a string of its own making
Present ==
    /\ tok.origin = "none"
    /\ now <= MaxIssueTick
    /\ \E s \in ForeignTokens(now) :
         tok' = [s |-> s, origin |-> "presented", identity |-> NoIdentity]
    /\ UNCHANGED <<strategy, now, vres, filterVars, keyVars, gatewayVars>>

\* time passes by one tick, near the issue and near the expiry
Tick ==
    /\ now < Horizon
    /\ now <= MaxIssueTick \/ now >= Seconds(TTL - 1)
    /\ now' = now + 1
    /\ UNCHANGED <<strategy, tok, vres, filterVars, keyVars, gatewayVars>>

\* time passes by one second less than the token lifetime
Jump ==
    /\ now <= MaxIssueTick + 1
    /\ now' = now + Seconds(TTL - 1)
    /\ UNCHANGED <<strategy, tok, vres, filterVars, keyVars, gatewayVars>>

\* a request carrying the token reaches get_current_user
Verify ==
    /\ tok.origin # "none"
    /\ vres' = [called |-> TRUE, at |-> now,
                status |-> get_current_user(tok.s, now).status,
                user |-> verify_jwt_token(tok.s, now)]
    /\ UNCHANGED <<strategy, now, tok, filterVars, keyVars, gatewayVars>>

-----------------------------------------------------------------------------
(* 4.2 Authorization gate, API-key policy: src/auth.py                      *)

\* os.environ.get("API_KEY", "default-dev-key-if-not-set")
DevSentinel == "default-dev-key-if-not-set"

\* the X-API-Key header: absent (None, auto_error=False) or a string
NoHeader == [present |-> FALSE, value |-> ""]
Header(v) == [present |-> TRUE, value |-> v]

\* Python: not api_key
NotKey(h) == ~h.present \/ h.value = ""

\* get_api_key, lines 13-39: the value returned, or the status raised
get_api_key(api_key_header) ==
    IF API_KEY = DevSentinel
    THEN [accepted |-> TRUE, status |-> 200, value |-> "development-key", warned |-> TRUE]
    ELSE IF NotKey(api_key_header)
    THEN [accepted |-> FALSE, status |-> 401, value |-> "API key is missing", warned |-> FALSE]
    ELSE IF api_key_header.value # API_KEY
    THEN [accepted |-> FALSE, status |-> 401, value |-> "Invalid API key", warned |-> FALSE]
    ELSE [accepted |-> TRUE, status |-> 200, value |-> api_key_header.value, warned |-> FALSE]

\* verify_api_key, lines 42-50
verify_api_key(api_key) ==
    IF NotKey(api_key) THEN FALSE
    ELSE IF API_KEY = DevSentinel THEN TRUE
    ELSE api_key.value = API_KEY

ConfiguredKeys == {DevSentinel, "prod-key", ""}
SuppliedKeys == {NoHeader} \cup {Header(v) : v \in {"", DevSentinel, "prod-key", "guess"}}

NoKeyReq == [fn |-> "none", header |-> NoHeader]
NoKeyRes == [done |-> FALSE, accepted |-> FALSE, status |-> 0]

KeyIdle ==
    /\ keyReq = NoKeyReq
    /\ keyRes = NoKeyRes
    /\ warnings = 0

\* a request reaches one of the two checks of auth.py
KeyArrive ==
    /\ keyReq.fn = "none"
    /\ warnings < MaxWarnings
    /\ \E f \in {"get_api_key", "verify_api_key"}, h \in SuppliedKeys :
         keyReq' = [fn |-> f, header |-> h]
    /\ keyRes' = NoKeyRes
    /\ UNCHANGED <<strategy, now, tokenVars, filterVars, API_KEY, warnings, gatewayVars>>

CheckGetApiKey ==
    /\ keyReq.fn = "get_api_key" /\ ~keyRes.done
    /\ keyRes' = [done |-> TRUE,
                  accepted |-> get_api_key(keyReq.header).accepted,
                  status |-> get_api_key(keyReq.header).status]
    /\ warnings' = IF get_api_key(keyReq.header).warned THEN warnings + 1 ELSE warnings
    /\ UNCHANGED <<strategy, now, tokenVars, filterVars, API_KEY, keyReq, gatewayVars>>

CheckVerifyApiKey ==
    /\ keyReq.fn = "verify_api_key" /\ ~keyRes.done
    /\ keyRes' = [done |-> TRUE,
                  accepted |-> verify_api_key(keyReq.header),
                  status |-> 0]
    /\ UNCHANGED <<strategy, now, tokenVars, filterVars, API_KEY, keyReq, warnings,
                   gatewayVars>>

\* the request is answered; the next one may arrive
KeyDone ==
    /\ keyRes.done
    /\ keyReq' = NoKeyReq
    /\ UNCHANGED <<strategy, now, tokenVars, filterVars, API_KEY, keyRes, warnings,
                   gatewayVars>>

-----------------------------------------------------------------------------
(* 4.4 Upstream forwarder: src/main.py supabase_request                     *)
(*                                                                         *)
(* A reply of the upstream service (or of the identity provider) is        *)
(*   [kind |-> "neterr"]   requests raised: no response arrived            *)
(*   [kind |-> "http", status, text, n]   a response; text says what its   *)
(*        body is: "empty", "blank" (white space), "json_list" (a JSON     *)
(*        list of n rows), "json_object", "text" (not JSON).               *)
(* A result of the gateway is [status, kind, detail, creator, n]: an       *)
(* HTTPException ("error") or the value a handler returns with 200.        *)
(***************************************************************************)

NetErr == [kind |-> "neterr", status |-> 0, text |-> "empty", n |-> 0]
Http(status, text, n) == [kind |-> "http", status |-> status, text |-> text, n |-> n]

\* raise HTTPException(status_code=status, detail=detail)
HTTPException(status, detail) ==
    [status |-> status, kind |-> "error", detail |-> detail, creator |-> "", n |-> 0]
\* return value (FastAPI answers 200)
Return(kind, detail, creator, n) ==
    [status |-> 200, kind |-> kind, detail |-> detail, creator |-> creator, n |-> n]
NoResp == [status |-> 0, kind |-> "none", detail |-> "", creator |-> "", n |-> 0]
\* the forwarder goes on to fetch the row it created, lines 110-117
NeedFetch == [status |-> 0, kind |-> "need_fetch", detail |-> "", creator |-> "", n |-> 0]

\* the name json is bound only where the fallback branch ran "import json" (line 174)
JsonImported == strategy = "fallback"

\* lines 85-140, for the reply to requests.request(...)
supabase_request(method, reply) ==
    IF reply.kind = "neterr"
    THEN HTTPException(500, "Database request failed")              \* lines 138-140
    ELSE IF reply.status >= 400
    THEN HTTPException(reply.status, "Supabase error")              \* lines 97-101
    ELSE IF reply.status = 204 \/ reply.text \in {"empty", "blank"}
    THEN CASE method = "DELETE" -> Return("ack", "Record deleted successfully", "", 0)
           [] method = "POST"   -> NeedFetch
           [] method = "PATCH"  -> Return("ack", "Record updated successfully", "", 0)
           [] OTHER             -> Return("success_only", "", "", 0)
    ELSE IF reply.text \in {"json_list", "json_object"}
    THEN Return(reply.text, "", "", reply.n)                        \* line 129
    ELSE IF JsonImported
    THEN Return("text_ack", "upstream text", "", 0)                 \* lines 130-134
    ELSE HTTPException(500, "Database request failed")              \* NameError, line 130

\* a follow-up lookup whose failures escape instead of being swallowed
fetch_lets_raise(reply, latest) ==
    IF reply.kind = "neterr"
    THEN HTTPException(500, "Database request failed")
    ELSE IF reply.status # 200
    THEN HTTPException(reply.status, "Supabase error")
    ELSE IF reply.text = "json_list" /\ reply.n > 0
    THEN Return("row", "", latest, 0)
    ELSE IF reply.text = "text"
    THEN HTTPException(500, "Database request failed")
    ELSE Return("ack", "Record created successfully", "", 0)

\* lines 110-121, for the reply to requests.get(url, params=fetch_params);
\* latest is the creator of the row the query order=created_at.desc&limit=1 selects
fetch_created(reply, latest) ==
    IF reply.kind = "neterr"
    THEN Return("ack", "Record created successfully", "", 0)        \* except, line 118
    ELSE IF reply.status = 200 /\ reply.text \notin {"empty", "blank"}
    THEN IF reply.text = "text"
         THEN Return("ack", "Record created successfully", "", 0)   \* json() raises
         ELSE IF reply.text = "json_object"
         THEN Return("ack", "Record created successfully", "", 0)   \* result[0]: KeyError
         ELSE IF reply.n > 0
         THEN Return("row", "", latest, 0)                          \* return result[0]
         ELSE Return("ack", "Record created successfully", "", 0)
    ELSE Return("ack", "Record created successfully", "", 0)

\* replies the upstream database can give to a forwarded operation
UpstreamReplies ==
    {NetErr}
    \cup {Http(s, "text", 0) : s \in {400, 404, 500}}
    \cup {Http(204, "empty", 0)}
    \cup {Http(s, t, 0) : s \in {200, 201}, t \in {"empty", "blank", "json_object", "text"}}
    \cup {Http(s, "json_list", n) : s \in {200, 201}, n \in 0..MaxSections}

\* replies to the follow-up GET of the newest row
FetchReplies ==
    {NetErr, Http(400, "text", 0), Http(206, "json_list", 1)}
    \cup {Http(200, t, 0) : t \in {"empty", "json_list", "json_object", "text"}}
    \cup {Http(200, "json_list", 1)}

-----------------------------------------------------------------------------
(* 4.2 Authorization gate, token + role policy: src/main.py                 *)

HICOM_ROLE_ID == "hicom-role"

\* a reply of the identity provider's member endpoint: body is "not_json",
\* "not_object" or "object"; roles is the object's "roles" member: absent,
\* null, or the list of role ids the provider's member object defines
DiscordNetErr == [kind |-> "neterr", status |-> 0, body |-> "not_json",
                  roles |-> [t |-> "absent", ids |-> {}]]
DiscordHttp(status, body, rt, ids) ==
    [kind |-> "http", status |-> status, body |-> body, roles |-> [t |-> rt, ids |-> ids]]
NoLookup == [kind |-> "none", status |-> 0, body |-> "not_json",
             roles |-> [t |-> "absent", ids |-> {}]]

DiscordReplies ==
    {DiscordNetErr}
    \cup {DiscordHttp(s, "object", "absent", {}) : s \in {401, 404, 429, 500}}
    \cup {DiscordHttp(404, "object", "list", {HICOM_ROLE_ID})}
    \cup {DiscordHttp(200, b, "absent", {}) : b \in {"not_json", "not_object", "object"}}
    \cup {DiscordHttp(200, "object", "null", {})}
    \cup {DiscordHttp(200, "object", "list", ids) : ids \in SUBSET {HICOM_ROLE_ID, "member-role"}}

\* lines 208-209: the admin needs no lookup
IsAdmin(user) == user.discord_id = ADMIN_DISCORD_ID

\* a lookup that trusts the body of any response
lookup_ignores_status(reply) ==
    /\ reply.kind = "http"
    /\ reply.body = "object"
    /\ reply.roles.t = "list"
    /\ HICOM_ROLE_ID \in reply.roles.ids

\* lines 217-231: TRUE when the lookup returns the user; every exception is caught
lookup_grants(reply) ==
    IF reply.kind = "neterr" THEN FALSE                   \* requests.get raised
    ELSE IF reply.status # 200 THEN FALSE
    ELSE IF reply.body = "not_json" THEN FALSE            \* response.json() raised
    ELSE IF reply.body = "not_object" THEN FALSE          \* member_data.get raised
    ELSE IF reply.roles.t = "null" THEN FALSE             \* in None: TypeError
    ELSE LET roles == IF reply.roles.t = "absent" THEN {} ELSE reply.roles.ids
         IN  Truthy(HICOM_ROLE_ID) /\ HICOM_ROLE_ID \in roles

\* FastAPI's HTTPBearer (line 58, auto_error) answers a request without a Bearer
\* credential itself: 403 before FastAPI 0.122, 401 from 0.122 on
BearerRejectStatus == {401, 403}

-----------------------------------------------------------------------------
(* 4.5 Route handlers *)

R(name, method, table, auth) ==
    [name |-> name, method |-> method, table |-> table, auth |-> auth]

Routes == {
    R("get_current_user_info", "GET", "", "user"),
    R("check_permissions", "GET", "", "role"),
    R("public_leaderboard", "GET", "users", "none"),
    R("public_hr", "GET", "HRs", "none"),
    R("public_lr", "GET", "LRs", "none"),
    R("leaderboard", "GET", "users", "role"),
    R("get_hr", "GET", "HRs", "role"),
    R("get_lr", "GET", "LRs", "role"),
    R("create_hr", "POST", "HRs", "role"),
    R("create_lr", "POST", "LRs", "role"),
    R("create_user", "POST", "users", "role"),
    R("update_hr", "PATCH", "HRs", "role"),
    R("update_lr", "PATCH", "LRs", "role"),
    R("update_user", "PATCH", "users", "role"),
    R("delete_hr", "DELETE", "HRs", "role"),
    R("delete_lr", "DELETE", "LRs", "role"),
    R("delete_user", "DELETE", "users", "role"),
    R("get_hierarchy", "GET", "hierarchy_sections", "none"),
    R("get_hierarchy_admin", "GET", "hierarchy_sections", "role"),
    R("create_hierarchy_section", "POST", "hierarchy_sections", "role"),
    R("update_hierarchy_section", "PATCH", "hierarchy_sections", "role"),
    R("delete_hierarchy_section", "DELETE", "hierarchy_sections", "role"),
    R("create_hierarchy_entry", "POST", "hierarchy_entries", "role"),
    R("update_hierarchy_entry", "PATCH", "hierarchy_entries", "role"),
    R("delete_hierarchy_entry", "DELETE", "hierarchy_entries", "role"),
    R("create_hierarchy_header", "POST", "hierarchy_headers", "role"),
    R("update_hierarchy_header", "PATCH", "hierarchy_headers", "role"),
    R("delete_hierarchy_header", "DELETE", "hierarchy_headers", "role")}

NoRoute == R("", "", "", "none")

\* the allow-list of a table
Columns(table) ==
    CASE table = "HRs" -> HR_COLUMNS
      [] table = "LRs" -> LR_COLUMNS
      [] table = "users" -> USER_COLUMNS
      [] table = "hierarchy_sections" -> HIERARCHY_SECTION_COLUMNS
      [] table = "hierarchy_entries" -> HIERARCHY_ENTRY_COLUMNS
      [] table = "hierarchy_headers" -> HIERARCHY_HEADER_COLUMNS
      [] OTHER -> {}

\* keys of the bodies clients send to a table's write routes: the required
\* ones, one more column, and one key no allow-list has
InputKeys(table) ==
    CASE table = "HRs" -> {"user_id", "username", "rank", "evil_field"}
      [] table = "LRs" -> {"user_id", "username", "activity", "evil_field"}
      [] table = "users" -> {"user_id", "username", "xp", "evil_field"}
      [] table = "hierarchy_sections" ->
             {"section_title", "section_type", "is_active", "evil_field"}
      [] table = "hierarchy_entries" -> {"section_id", "rank", "username", "evil_field"}
      [] table = "hierarchy_headers" ->
             {"section_id", "header_text", "display_order", "evil_field"}
      [] OTHER -> {}

RequestVals == {"", "x"}

\* the JSON bodies a client may send to route r
RouteInputs(r) ==
    IF r.method \in {"POST", "PATCH"}
    THEN Dicts(InputKeys(r.table), RequestVals, MaxPayloadKeys)
    ELSE {EmptyDict}

\* the record id in the path of route r
RoutePathIds(r) == IF r.method \in {"PATCH", "DELETE"} THEN {"7"} ELSE {""}

GarbageToken == [fmt |-> "garbage", key |-> "", body |-> NoBody]

\* the Authorization header: none, another scheme, or Bearer with a token that
\* is fresh, expired, or no token at all
Creds(t) ==
    {[scheme |-> "none", token |-> NoToken], [scheme |-> "Basic", token |-> GarbageToken],
     [scheme |-> "Bearer", token |-> GarbageToken],
     [scheme |-> "Bearer",
      token |-> create_jwt_token([discord_id |-> ADMIN_DISCORD_ID, username |-> "alice"],
                                 t - Seconds(TTL), t - Seconds(TTL))]}
    \cup {[scheme |-> "Bearer", token |-> create_jwt_token(I, t - 1, t - 1)] :
             I \in Identities}


\* credentials tried on route r: a public route is tried without any
RouteCreds(r, t) ==
    IF r.auth = "none" THEN {[scheme |-> "none", token |-> NoToken]} ELSE Creds(t)

-----------------------------------------------------------------------------
(* The gateway: one inbound request at a time goes through the dependencies *)
(* of its route and then through its handler; every outbound call is one    *)
(* step.  req.pc is the place reached:                                      *)
(*   idle, security, current_user, role, handler, fetch, headers, entries,  *)
(*   done.                                                                  *)

IdleReq ==
    [pc |-> "idle", route |-> NoRoute,
     cred |-> [scheme |-> "none", token |-> NoToken],
     data |-> EmptyDict, rid |-> "", user |-> NoBody, lookup |-> NoLookup,
     gate |-> "pending", resp |-> NoResp, left |-> 0, total |-> 0]

GatewayIdle ==
    /\ req = IdleReq
    /\ sent = <<>>
    /\ discordCalls = 0
    /\ newest = "none"

\* one outbound request to the upstream database, lines 71-92: the filter is the
\* query string appended to the URL when record_id is not None
Call(method, table, body, record_id, params, reply) ==
    [method |-> method, table |-> table, body |-> body,
     filter |-> IF record_id = "" THEN [column |-> "", value |-> ""]
                ELSE [column |-> "id", value |-> record_id],
     params |-> params, reply |-> reply]

\* the handler or a dependency ends the request with resp
Finish(resp) == req' = [req EXCEPT !.pc = "done", !.resp = resp]

Reject(resp) == req' = [req EXCEPT !.pc = "done", !.gate = "rejected", !.resp = resp]

\* a request arrives
Arrive ==
    /\ req.pc = "idle"
    /\ \E r \in Routes :
         \E c \in RouteCreds(r, now), d \in RouteInputs(r), i \in RoutePathIds(r) :
            req' = [IdleReq EXCEPT !.pc = IF r.auth = "none" THEN "handler" ELSE "security",
                                   !.route = r, !.cred = c, !.data = d, !.rid = i,
                                   !.gate = IF r.auth = "none" THEN "public" ELSE "pending"]
    /\ UNCHANGED <<strategy, now, tokenVars, filterVars, keyVars, sent, discordCalls, newest>>

\* security = HTTPBearer(), line 58
HTTPBearer ==
    /\ req.pc = "security"
    /\ IF req.cred.scheme = "Bearer"
       THEN req' = [req EXCEPT !.pc = "current_user"]
       ELSE \E s \in BearerRejectStatus : Reject(HTTPException(s, "Not authenticated"))
    /\ UNCHANGED <<strategy, now, tokenVars, filterVars, keyVars, sent, discordCalls, newest>>

\* the dependency get_current_user, lines 197-203
GetCurrentUser ==
    /\ req.pc = "current_user"
    /\ LET r == get_current_user(req.cred.token, now)
       IN  IF r.status # 200
           THEN Reject(HTTPException(r.status, "Invalid or expired token"))
           ELSE req' = [req EXCEPT !.user = r.user.payload,
                                   !.pc = IF req.route.auth = "user" THEN "handler" ELSE "role",
                                   !.gate = IF req.route.auth = "user" THEN "authorized"
                                            ELSE "pending"]
    /\ UNCHANGED <<strategy, now, tokenVars, filterVars, keyVars, sent, discordCalls, newest>>

\* the dependency is_admin_or_hicom, lines 205-233
is_admin_or_hicom ==
    /\ req.pc = "role"
    /\ IF IsAdmin(req.user)
       THEN /\ req' = [req EXCEPT !.pc = "handler", !.gate = "authorized"]
            /\ UNCHANGED discordCalls
       ELSE \E reply \in DiscordReplies :
              /\ discordCalls' = discordCalls + 1
              /\ IF lookup_grants(reply)
                 THEN req' = [req EXCEPT !.pc = "handler", !.gate = "authorized",
                                         !.lookup = reply]
                 ELSE req' = [req EXCEPT !.pc = "done", !.gate = "rejected",
                                         !.lookup = reply,
                                         !.resp = HTTPException(403, "Access denied")]
    /\ UNCHANGED <<strategy, now, tokenVars, filterVars, keyVars, sent, newest>>

\* the response leaves; the next request may arrive
Respond ==
    /\ req.pc = "done"
    /\ req' = IdleReq
    /\ sent' = <<>>
    /\ discordCalls' = 0
    /\ newest' = "none"
    /\ UNCHANGED <<strategy, now, tokenVars, filterVars, keyVars>>

\* /auth/me, lines 319-330
get_current_user_info ==
    /\ req.pc = "handler" /\ req.route.name = "get_current_user_info"
    /\ Finish(Return("identity", req.user.discord_id, "", 0))
    /\ UNCHANGED <<strategy, now, tokenVars, filterVars, keyVars, sent, discordCalls, newest>>

\* /auth/check-permissions, lines 332-342
check_permissions ==
    /\ req.pc = "handler" /\ req.route.name = "check_permissions"
    /\ Finish(Return("authorized", req.user.discord_id, "", 0))
    /\ UNCHANGED <<strategy, now, tokenVars, filterVars, keyVars, sent, discordCalls, newest>>


\* an emptiness test that never fires
never_empty(payload) == FALSE

\* Python: not payload
IsEmptyPayload(payload) == DOMAIN payload = {}

\* Python: not payload.get(key)
NotGet(payload, key) == key \notin DOMAIN payload \/ ~Truthy(payload[key])

\* the public listings, lines 351-393: any exception becomes []
PublicList(name, table, params) ==
    /\ req.pc = "handler" /\ req.route.name = name
    /\ \E reply \in UpstreamReplies :
         LET result == supabase_request("GET", reply)
         IN  /\ sent' = Append(sent, Call("GET", table, EmptyDict, "", params, reply))
             /\ Finish(IF result.kind = "error" THEN Return("empty_list", "", "", 0)
                       ELSE result)
    /\ UNCHANGED <<strategy, now, tokenVars, filterVars, keyVars, discordCalls, newest>>

\* the protected listings, lines 398-417
ProtectedList(name, table, params) ==
    /\ req.pc = "handler" /\ req.route.name = name
    /\ \E reply \in UpstreamReplies :
         /\ sent' = Append(sent, Call("GET", table, EmptyDict, "", params, reply))
         /\ Finish(supabase_request("GET", reply))
    /\ UNCHANGED <<strategy, now, tokenVars, filterVars, keyVars, discordCalls, newest>>

\* a create that makes its follow-up lookup whatever the POST was answered
post_always_fetches(table, payload) ==
    \E reply \in UpstreamReplies :
        /\ sent' = Append(sent, Call("POST", table, payload, "", "", reply))
        /\ newest' = IF reply.kind = "http" /\ reply.status < 400 THEN "self"
                     ELSE newest
        /\ req' = [req EXCEPT !.pc = "fetch"]

\* supabase_request("POST", table, data=payload) up to the reply to the POST: the
\* row exists upstream once the POST is answered with a success status
ForwardPost(table, payload) ==
    \E reply \in UpstreamReplies :
        LET result == supabase_request("POST", reply)
        IN  /\ sent' = Append(sent, Call("POST", table, payload, "", "", reply))
            /\ newest' = IF reply.kind = "http" /\ reply.status < 400 THEN "self"
                         ELSE newest
            /\ IF result = NeedFetch THEN req' = [req EXCEPT !.pc = "fetch"]
               ELSE Finish(result)

\* create_hr, create_lr, create_user, lines 451-476
CreateKeyed(name, table, columns) ==
    /\ req.pc = "handler" /\ req.route.name = name
    /\ IF "username" \notin DOMAIN req.data \/ "user_id" \notin DOMAIN req.data
       THEN /\ Finish(HTTPException(400, "Missing required field: user_id or username"))
            /\ UNCHANGED <<sent, newest>>
       ELSE ForwardPost(table, _filter_payload(req.data, columns))
    /\ UNCHANGED <<strategy, now, tokenVars, filterVars, keyVars, discordCalls>>

\* create_hierarchy_section / _entry / _header, lines 644-703
CreateHierarchy(name, table, columns, first, second) ==
    /\ req.pc = "handler" /\ req.route.name = name
    /\ LET payload == _filter_payload(req.data, columns)
       IN  IF NotGet(payload, first) \/ NotGet(payload, second)
           THEN /\ Finish(HTTPException(400, "Missing required fields"))
                /\ UNCHANGED <<sent, newest>>
           ELSE ForwardPost(table, payload)
    /\ UNCHANGED <<strategy, now, tokenVars, filterVars, keyVars, discordCalls>>

\* supabase_request after a POST answered without a body, lines 110-121
FetchCreated ==
    /\ req.pc = "fetch"
    /\ \E reply \in FetchReplies :
         /\ sent' = Append(sent, Call("GET", req.route.table, EmptyDict, "",
                                      "order=created_at.desc&limit=1", reply))
         /\ Finish(fetch_created(reply, newest))
    /\ UNCHANGED <<strategy, now, tokenVars, filterVars, keyVars, discordCalls, newest>>

\* another client's create request on the same table reaches the upstream
\* between this request's POST and its follow-up GET
OtherClientCreate ==
    /\ req.pc = "fetch"
    /\ newest = "self"
    /\ newest' = "other"
    /\ UNCHANGED <<strategy, now, tokenVars, filterVars, keyVars, req, sent, discordCalls>>

\* the update handlers, lines 480-502 and 654-713
Update(name, table, columns) ==
    /\ req.pc = "handler" /\ req.route.name = name
    /\ LET payload == _filter_payload(req.data, columns)
       IN  IF IsEmptyPayload(payload)
           THEN /\ Finish(HTTPException(400, "No valid fields to update"))
                /\ UNCHANGED sent
           ELSE \E reply \in UpstreamReplies :
                  /\ sent' = Append(sent, Call("PATCH", table, payload, req.rid, "", reply))
                  /\ Finish(supabase_request("PATCH", reply))
    /\ UNCHANGED <<strategy, now, tokenVars, filterVars, keyVars, discordCalls, newest>>

\* the delete handlers, lines 506-519 and 664-719
Delete(name, table) ==
    /\ req.pc = "handler" /\ req.route.name = name
    /\ \E reply \in UpstreamReplies :
         /\ sent' = Append(sent, Call("DELETE", table, EmptyDict, req.rid, "", reply))
         /\ Finish(supabase_request("DELETE", reply))
    /\ UNCHANGED <<strategy, now, tokenVars, filterVars, keyVars, discordCalls, newest>>


\* what a hierarchy read answers when anything inside its try raises:
\* get_hierarchy returns [] (line 603), get_hierarchy_admin raises 500 (line 641)
HierarchyFailure(name) ==
    IF name = "get_hierarchy" THEN Return("empty_list", "", "", 0)
    ELSE HTTPException(500, "Failed to load hierarchy data")

\* the first call of a hierarchy read, lines 573 and 611; a result that is a
\* dict makes section['id'] raise TypeError in the loop
HierarchySections(name, params) ==
    /\ req.pc = "handler" /\ req.route.name = name
    /\ \E reply \in UpstreamReplies :
         LET result == supabase_request("GET", reply)
         IN  /\ sent' = Append(sent, Call("GET", "hierarchy_sections", EmptyDict, "",
                                          params, reply))
             /\ IF result.kind = "json_list" /\ result.n > 0
                THEN req' = [req EXCEPT !.pc = "headers", !.left = result.n,
                                        !.total = result.n]
                ELSE IF result.kind = "json_list"
                THEN Finish(Return("hierarchy", "", "", 0))
                ELSE Finish(HierarchyFailure(name))
    /\ UNCHANGED <<strategy, now, tokenVars, filterVars, keyVars, discordCalls, newest>>

\* the headers of the next section, lines 583 and 621
HierarchyHeaders ==
    /\ req.pc = "headers"
    /\ \E reply \in UpstreamReplies :
         /\ sent' = Append(sent, Call("GET", "hierarchy_headers", EmptyDict, "",
                                      "section_id=eq.<id>", reply))
         /\ IF supabase_request("GET", reply).kind = "error"
            THEN Finish(HierarchyFailure(req.route.name))
            ELSE req' = [req EXCEPT !.pc = "entries"]
    /\ UNCHANGED <<strategy, now, tokenVars, filterVars, keyVars, discordCalls, newest>>

\* the entries of that section, lines 591 and 629, and the end of the loop
HierarchyEntries ==
    /\ req.pc = "entries"
    /\ \E reply \in UpstreamReplies :
         /\ sent' = Append(sent, Call("GET", "hierarchy_entries", EmptyDict, "",
                                      "section_id=eq.<id>", reply))
         /\ IF supabase_request("GET", reply).kind = "error"
            THEN Finish(HierarchyFailure(req.route.name))
            ELSE IF req.left > 1
            THEN req' = [req EXCEPT !.pc = "headers", !.left = req.left - 1]
            ELSE Finish(Return("hierarchy", "", "", req.total))
    /\ UNCHANGED <<strategy, now, tokenVars, filterVars, keyVars, discordCalls, newest>>

public_leaderboard ==
    PublicList("public_leaderboard", "users", "order=xp.desc&limit=100")
public_hr == PublicList("public_hr", "HRs", "order=user_id&limit=100")
public_lr == PublicList("public_lr", "LRs", "order=user_id&limit=100")
leaderboard == ProtectedList("leaderboard", "users", "order=xp.desc")
get_hr == ProtectedList("get_hr", "HRs", "order=user_id")
get_lr == ProtectedList("get_lr", "LRs", "order=user_id")
create_hr == CreateKeyed("create_hr", "HRs", HR_COLUMNS)
create_lr == CreateKeyed("create_lr", "LRs", LR_COLUMNS)
create_user == CreateKeyed("create_user", "users", USER_COLUMNS)
update_hr == Update("update_hr", "HRs", HR_COLUMNS)
update_lr == Update("update_lr", "LRs", LR_COLUMNS)
update_user == Update("update_user", "users", USER_COLUMNS)
delete_hr == Delete("delete_hr", "HRs")
delete_lr == Delete("delete_lr", "LRs")
delete_user == Delete("delete_user", "users")
get_hierarchy ==
    HierarchySections("get_hierarchy", "order=display_order&is_active=eq.true")
get_hierarchy_admin == HierarchySections("get_hierarchy_admin", "order=display_order")
create_hierarchy_section ==
    CreateHierarchy("create_hierarchy_section", "hierarchy_sections",
                    HIERARCHY_SECTION_COLUMNS, "section_title", "section_type")
update_hierarchy_section ==
    Update("update_hierarchy_section", "hierarchy_sections", HIERARCHY_SECTION_COLUMNS)
delete_hierarchy_section == Delete("delete_hierarchy_section", "hierarchy_sections")
create_hierarchy_entry ==
    CreateHierarchy("create_hierarchy_entry", "hierarchy_entries",
                    HIERARCHY_ENTRY_COLUMNS, "section_id", "rank")
update_hierarchy_entry ==
    Update("update_hierarchy_entry", "hierarchy_entries", HIERARCHY_ENTRY_COLUMNS)
delete_hierarchy_entry == Delete("delete_hierarchy_entry", "hierarchy_entries")
create_hierarchy_header ==
    CreateHierarchy("create_hierarchy_header", "hierarchy_headers",
                    HIERARCHY_HEADER_COLUMNS, "section_id", "header_text")
update_hierarchy_header ==
    Update("update_hierarchy_header", "hierarchy_headers", HIERARCHY_HEADER_COLUMNS)
delete_hierarchy_header == Delete("delete_hierarchy_header", "hierarchy_headers")

-----------------------------------------------------------------------------
(* Specifications *)

Strategies == {"pyjwt", "fallback"}

\* the gateway: the process has been up for an hour when requests arrive
Init ==
    /\ strategy \in Strategies
    /\ now = Seconds(TTL)
    /\ TokenIdle
    /\ FilterIdle
    /\ API_KEY = DevSentinel /\ KeyIdle
    /\ GatewayIdle

Next ==
    \/ Arrive \/ HTTPBearer \/ GetCurrentUser \/ is_admin_or_hicom \/ Respond
    \/ get_current_user_info \/ check_permissions
    \/ public_leaderboard \/ public_hr \/ public_lr
    \/ leaderboard \/ get_hr \/ get_lr
    \/ create_hr \/ create_lr \/ create_user
    \/ update_hr \/ update_lr \/ update_user
    \/ delete_hr \/ delete_lr \/ delete_user
    \/ get_hierarchy \/ get_hierarchy_admin \/ HierarchyHeaders \/ HierarchyEntries
    \/ create_hierarchy_section \/ update_hierarchy_section \/ delete_hierarchy_section
    \/ create_hierarchy_entry \/ update_hierarchy_entry \/ delete_hierarchy_entry
    \/ create_hierarchy_header \/ update_hierarchy_header \/ delete_hierarchy_header
    \/ FetchCreated \/ OtherClientCreate

Spec == Init /\ [][Next]_vars

\* the token authority
InitToken ==
    /\ strategy \in Strategies
    /\ now = 0
    /\ TokenIdle
    /\ FilterIdle
    /\ API_KEY = DevSentinel /\ KeyIdle
    /\ GatewayIdle

NextToken == Issue \/ Present \/ Tick \/ Jump \/ Verify

SpecToken == InitToken /\ [][NextToken]_vars

\* the payload filter
InitFilter ==
    /\ strategy = "pyjwt"
    /\ now = 0
    /\ TokenIdle
    /\ FilterInit
    /\ API_KEY = DevSentinel /\ KeyIdle
    /\ GatewayIdle

NextFilter == FilterOnce \/ FilterTwice

SpecFilter == InitFilter /\ [][NextFilter]_vars

\* the API-key policy
InitKey ==
    /\ strategy = "pyjwt"
    /\ now = 0
    /\ TokenIdle
    /\ FilterIdle
    /\ API_KEY \in ConfiguredKeys /\ KeyIdle
    /\ GatewayIdle

NextKey == KeyArrive \/ CheckGetApiKey \/ CheckVerifyApiKey \/ KeyDone

SpecKey == InitKey /\ [][NextKey]_vars

-----------------------------------------------------------------------------
(* Properties *)

\* the write requests among those sent upstream for the current request
Writes == {i \in DOMAIN sent : sent[i].method \in {"POST", "PATCH"}}

\* C1: the body of every POST and PATCH forwarded upstream is the request's
\* input restricted to the allow-list of the table written: it has exactly the
\* input's allow-listed keys, no other key, and each with the input's value.
C1_ForwardedBodyIsAllowListed ==
    \A i \in Writes :
        /\ DOMAIN sent[i].body \subseteq Columns(sent[i].table)
        /\ DOMAIN sent[i].body = DOMAIN req.data \cap Columns(sent[i].table)
        /\ \A k \in DOMAIN sent[i].body : sent[i].body[k] = req.data[k]

\* a create was forwarded whose input carried a key outside the allow-list
C1_Witness ==
    /\ req.pc = "done"
    /\ \E i \in Writes :
         /\ sent[i].method = "POST"
         /\ "evil_field" \in DOMAIN req.data
         /\ DOMAIN sent[i].body # {}

\* the dependency is_admin_or_hicom has decided about a request with a valid token
RoleDecided ==
    /\ req.route.auth = "role"
    /\ req.user # NoBody
    /\ req.pc \in {"handler", "fetch", "headers", "entries", "done"}

\* C2: with a valid token, is_admin_or_hicom authorizes exactly when the
\* token's discord_id is the admin id (then without any lookup) or the lookup
\* answered 200 with the configured role in the role list; every other outcome
\* is answered 403.
C2_RoleGate ==
    RoleDecided =>
        /\ req.gate \in {"authorized", "rejected"}
        /\ req.gate = "authorized" <=>
              \/ req.user.discord_id = ADMIN_DISCORD_ID
              \/ /\ req.lookup.kind = "http"
                 /\ req.lookup.status = 200
                 /\ req.lookup.roles.t = "list"
                 /\ HICOM_ROLE_ID \in req.lookup.roles.ids
        /\ req.user.discord_id = ADMIN_DISCORD_ID =>
              discordCalls = 0 /\ req.lookup = NoLookup
        /\ req.gate = "rejected" =>
              req.pc = "done" /\ req.resp.kind = "error" /\ req.resp.status = 403

\* a member who is not the admin was authorized by the lookup
C2_Witness ==
    /\ RoleDecided
    /\ req.gate = "authorized"
    /\ req.user.discord_id = MEMBER_DISCORD_ID
    /\ discordCalls = 1

\* C3: a request to a protected route that carries no credential is answered
\* 401, and no request is sent upstream for a request the gate rejects.
C3_NoCredentialIs401 ==
    /\ req.gate = "rejected" => sent = <<>>
    /\ (req.pc = "done" /\ req.route.auth # "none" /\ req.cred.scheme = "none") =>
          req.resp.kind = "error" /\ req.resp.status = 401 /\ sent = <<>>

\* C4: verify at time t of the token issued for I returns the identity fields
\* of I when t < expires_at, and invalid when t >= expires_at, under both
\* strategies (expires_at is the token's exp claim, the clock at issue + 3600 s).
\* The clock never runs backwards, so a token rejected at t >= expires_at stays
\* rejected at every later time.
C4_VerifyUntilExpiry ==
    (vres.called /\ tok.origin = "issued") =>
        IF vres.at < tok.s.body.exp.v
        THEN /\ vres.user.outcome = "payload"
             /\ vres.user.payload.discord_id = tok.identity.discord_id
             /\ vres.user.payload.username = tok.identity.username
        ELSE vres.user = None

\* C5: when the upstream answers a forwarded request with a status >= 400, the
\* client receives an error with that status, and nothing more is sent (the
\* best-effort GET after a create is not a forwarded operation).
C5_UpstreamErrorPropagates ==
    \A i \in DOMAIN sent :
        (/\ sent[i].reply.kind = "http"
         /\ sent[i].reply.status >= 400
         /\ sent[i].params # "order=created_at.desc&limit=1") =>
            /\ i = Len(sent)
            /\ req.pc = "done"
            /\ req.resp.kind = "error"
            /\ req.resp.status = sent[i].reply.status

\* C6: an update whose input has no allow-listed key is never forwarded, and
\* its handler answers 400.
C6_EmptyUpdateRejected ==
    (req.route.method = "PATCH" /\ DOMAIN req.data \cap Columns(req.route.table) = {}) =>
        /\ sent = <<>>
        /\ (req.pc = "done" /\ req.gate = "authorized") =>
              req.resp.kind = "error" /\ req.resp.status = 400

\* an authorized update with only a key outside the allow-list was answered
C6_Witness ==
    /\ req.pc = "done"
    /\ req.gate = "authorized"
    /\ req.route.method = "PATCH"
    /\ DOMAIN req.data = {"evil_field"}
    /\ req.resp.status = 400

\* C7: the body of a successful create is the record that request created or a
\* success acknowledgment, never a record another request created.
C7_CreateReturnsOwnRecord ==
    (req.pc = "done" /\ req.route.method = "POST" /\ req.resp.kind = "row") =>
        req.resp.creator = "self"

\* C8: with the configured key equal to the placeholder, get_api_key and
\* verify_api_key accept every request, whatever key it supplies or omits.
C8_DevModeAcceptsAll ==
    (keyRes.done /\ API_KEY = DevSentinel) => keyRes.accepted

\* C9: the keys of filter(P, A) are keys(P) /\ A, each with the value it has in
\* P, and filtering the result again with A changes nothing.
C9_FilterExactAndIdempotent ==
    /\ fOut[1].ran =>
          /\ DOMAIN fOut[1].out = DOMAIN fP \cap fA
          /\ \A k \in DOMAIN fOut[1].out : fOut[1].out[k] = fP[k]
    /\ fOut[2].ran => fOut[2].out = fOut[1].out

\* a payload lost a key to the filter, kept another, and was filtered twice
C9_Witness ==
    /\ fOut[2].ran
    /\ DOMAIN fP \ fA # {}
    /\ \E k \in DOMAIN fOut[1].out : fP[k] # ""

\* C10: verify ends with a decoded payload or None for every string, never
\* with an exception, and get_current_user answers 401 to every None.
C10_VerifyNeverRaises ==
    vres.called =>
        /\ vres.user.outcome \in {"payload", "None"}
        /\ vres.status \in {200, 401}
        /\ vres.user.outcome = "None" => vres.status = 401

\* a presented token whose JSON is not a mapping was answered 401
C10_Witness ==
    /\ vres.called
    /\ tok.origin = "presented"
    /\ tok.s.body.json = "array"
    /\ tok.s.fmt = "b64"
    /\ strategy = "fallback"
    /\ vres.status = 401

\* the request is answered and the reply to its one forwarded operation
\* arrived with a success status (the hierarchy reads compose several
\* operations and answer for themselves)
ForwardedWithSuccess ==
    /\ req.pc = "done"
    /\ Len(sent) >= 1
    /\ sent[1].reply.kind = "http"
    /\ sent[1].reply.status < 400
    /\ req.route.name \notin {"get_hierarchy", "get_hierarchy_admin"}

\* C11: an upstream response that arrives with a status below 400 yields a
\* success result whatever its body, under either import path; the forwarder
\* answers 500 only when the outbound call itself failed.
C11_SuccessStatusNeverError ==
    ForwardedWithSuccess => req.resp.kind # "error"

\* the reply to the request's forwarded operation is a success without content
ForwardedEmptySuccess ==
    /\ ForwardedWithSuccess
    /\ sent[1].reply.status = 204 \/ sent[1].reply.text \in {"empty", "blank"}

\* C12: for every method, a success reply with status 204 or an empty body is
\* returned as the shape with both success = true and a message (for POST,
\* unless the created record is returned instead).
C12_EmptySuccessIsCanonical ==
    ForwardedEmptySuccess =>
        \/ req.resp.kind = "ack" /\ req.resp.detail # ""
        \/ req.route.method = "POST" /\ req.resp.kind = "row"

\* a create was answered upstream with an empty success and the follow-up
\* lookup of the created record has been made
FetchAttempted ==
    /\ req.pc = "done"
    /\ req.route.method = "POST"
    /\ Len(sent) = 2
    /\ sent[2].params = "order=created_at.desc&limit=1"

\* the follow-up lookup failed: transport exception, non-200 status, empty
\* body, empty list or undecodable body
FetchFailed(reply) ==
    \/ reply.kind = "neterr"
    \/ reply.status # 200
    \/ reply.text \in {"empty", "blank", "text"}
    \/ reply.text = "json_list" /\ reply.n = 0

\* C13: when a create succeeded upstream with an empty body, any failure of the
\* follow-up lookup of the created record yields the generic acknowledgment
\* {success, message} and never an error response.
C13_FetchFailureDegradesToAck ==
    (FetchAttempted /\ FetchFailed(sent[2].reply)) =>
        req.resp = Return("ack", "Record created successfully", "", 0)

\* a create whose follow-up lookup failed at the transport was acknowledged
C13_Witness ==
    /\ FetchAttempted
    /\ sent[1].reply.status < 400
    /\ sent[2].reply = NetErr
    /\ req.resp.kind = "ack"

HierarchyReads == {"get_hierarchy", "get_hierarchy_admin"}

\* the table the i-th call of a hierarchy read goes to
HierarchyCallTable(i) ==
    IF i = 1 THEN "hierarchy_sections"
    ELSE IF i % 2 = 0 THEN "hierarchy_headers"
    ELSE "hierarchy_entries"

PathSelector(table) ==
    IF table \in {"HRs", "LRs", "users"} THEN "user_id" ELSE "id"

\* C15: every forwarded update or delete carries an equality filter whose value
\* is the record identifier of the request path and whose column is the one the
\* route's path parameter identifies.
C15_FilterOnPathSelector ==
    \A i \in 1..Len(sent) :
        sent[i].method \in {"PATCH", "DELETE"} =>
            /\ sent[i].filter.value = req.rid
            /\ sent[i].filter.value # ""
            /\ sent[i].filter.column = PathSelector(sent[i].table)

====
